---- MODULE Spec2Model ----
(***************************************************************************)
(* Validation and sanitisation layer of the Tezos MCP server               *)
(* (src/security.py).  Texts are sequences of one-character strings, a     *)
(* Python value is a record of its runtime type, its numeric value and its *)
(* text, and every function of security.py is an operator that computes    *)
(* what the Python code computes, regular expressions included.            *)
(***************************************************************************)
EXTENDS Integers, Sequences, FiniteSets, TLC

VARIABLES
    arg,      \* the value passed as first argument of the call
    maxArg,   \* the max_limit / max_amount argument of the call
    fn,       \* the function called last ("none" before the first call)
    ret,      \* what the call produced: a returned value or a raised error
    round,    \* number of consecutive applications of the sanitizer
    tool,     \* the tool operation being served: its server and its name
    params,   \* the caller's parameters, rebound as the handler rebinds them
    pc,       \* the position of the handler in its sequence of steps
    status,   \* "idle", "running", "raised" (an exception is in flight), "done"
    trace,    \* the steps the handler has executed, in order
    passed,   \* the parameters that have passed their validator
    exc,      \* the exception raised inside the handler
    response, \* what the handler returned to the caller
    logged    \* what the handler wrote to the log

callVars == <<arg, maxArg, fn, ret, round>>

serverVars == <<tool, params, pc, status, trace, passed, exc, response, logged>>

vars == <<arg, maxArg, fn, ret, round,
          tool, params, pc, status, trace, passed, exc, response, logged>>

----------------------------------------------------------------------------
(* Characters: the ASCII subset the texts are drawn from, in code order.   *)

\* code points 32..95
PrintableLo == <<
    " ", "!", "\"", "#", "$", "%", "&", "'", "(", ")", "*", "+", ",", "-",
    ".", "/", "0", "1", "2", "3", "4", "5", "6", "7", "8", "9", ":", ";",
    "<", "=", ">", "?", "@", "A", "B", "C", "D", "E", "F", "G", "H", "I",
    "J", "K", "L", "M", "N", "O", "P", "Q", "R", "S", "T", "U", "V", "W",
    "X", "Y", "Z", "[", "\\", "]", "^", "_" >>

\* code points 97..126 (the grave accent, 96, is left out of the alphabet)
PrintableHi == <<
    "a", "b", "c", "d", "e", "f", "g", "h", "i", "j", "k", "l", "m", "n",
    "o", "p", "q", "r", "s", "t", "u", "v", "w", "x", "y", "z", "{", "|",
    "}", "~" >>

Control == [c \in {"\t", "\n", "\f", "\r"} |->
              CASE c = "\t" -> 9 [] c = "\n" -> 10 [] c = "\f" -> 12 [] c = "\r" -> 13]

Char == {PrintableLo[i] : i \in DOMAIN PrintableLo}
        \cup {PrintableHi[i] : i \in DOMAIN PrintableHi} \cup DOMAIN Control

\* ord(c): the code point of a character
Ord == [c \in Char |->
          IF c \in DOMAIN Control THEN Control[c]
          ELSE IF \E i \in DOMAIN PrintableLo : PrintableLo[i] = c
               THEN 31 + (CHOOSE i \in DOMAIN PrintableLo : PrintableLo[i] = c)
               ELSE 96 + (CHOOSE i \in DOMAIN PrintableHi : PrintableHi[i] = c)]

\* chr(n) for the printable range
Chr(n) == IF n <= 95 THEN PrintableLo[n - 31] ELSE PrintableHi[n - 96]

\* a regular-expression character range [lo-hi]
CharRange(lo, hi) == {c \in Char : Ord[lo] <= Ord[c] /\ Ord[c] <= Ord[hi]}

\* [1-9A-HJ-NP-Za-km-z], one line for each of its six ranges
Base58 ==
    { "1", "2", "3", "4", "5", "6", "7", "8", "9",
      "A", "B", "C", "D", "E", "F", "G", "H",
      "J", "K", "L", "M", "N",
      "P", "Q", "R", "S", "T", "U", "V", "W", "X", "Y", "Z",
      "a", "b", "c", "d", "e", "f", "g", "h", "i", "j", "k",
      "m", "n", "o", "p", "q", "r", "s", "t", "u", "v", "w", "x", "y", "z" }

\* [A-Za-z], also [a-z] under re.IGNORECASE
Letter ==
    { "A", "B", "C", "D", "E", "F", "G", "H", "I", "J", "K", "L", "M",
      "N", "O", "P", "Q", "R", "S", "T", "U", "V", "W", "X", "Y", "Z",
      "a", "b", "c", "d", "e", "f", "g", "h", "i", "j", "k", "l", "m",
      "n", "o", "p", "q", "r", "s", "t", "u", "v", "w", "x", "y", "z" }

\* \w
WordChar ==
    { "0", "1", "2", "3", "4", "5", "6", "7", "8", "9", "_",
      "A", "B", "C", "D", "E", "F", "G", "H", "I", "J", "K", "L", "M",
      "N", "O", "P", "Q", "R", "S", "T", "U", "V", "W", "X", "Y", "Z",
      "a", "b", "c", "d", "e", "f", "g", "h", "i", "j", "k", "l", "m",
      "n", "o", "p", "q", "r", "s", "t", "u", "v", "w", "x", "y", "z" }

\* \s, and the characters str.strip() removes
Whitespace == {" ", "\t", "\n", "\f", "\r"}

\* the class of the double and the single quote, negated in the path patterns
Quote == {"\"", "'"}

Min(a, b) == IF a <= b THEN a ELSE b

Rep(c, n) == [i \in 1..n |-> c]

\* s[from:] of Python, 1-based
Tail_(s, from) == SubSeq(s, from, Len(s))

\* str.lower() on one character
LowerChar == [c \in Char |-> IF c \in CharRange("A", "Z") THEN Chr(Ord[c] + 32) ELSE c]

\* str.lower()
lower(s) == [i \in 1..Len(s) |-> LowerChar[s[i]]]

\* str.strip(): drops the leading and the trailing whitespace
strip(s) ==
    LET first == CHOOSE i \in 1..(Len(s) + 1) :
                    (i = Len(s) + 1 \/ s[i] \notin Whitespace)
                    /\ \A j \in 1..(i - 1) : s[j] \in Whitespace
        last  == CHOOSE i \in 0..Len(s) :
                    (i = 0 \/ s[i] \notin Whitespace)
                    /\ \A j \in (i + 1)..Len(s) : s[j] \in Whitespace
    IN  IF first > last THEN <<>> ELSE SubSeq(s, first, last)

----------------------------------------------------------------------------
(* Python values and call results.                                         *)

PyInt(n)   == [type |-> "int",      num |-> n, text |-> <<>>]
PyBool(n)  == [type |-> "bool",     num |-> n, text |-> <<>>]
PyFloat(n) == [type |-> "float",    num |-> n, text |-> <<>>]
PyStr(t)   == [type |-> "str",      num |-> 0, text |-> t]
PyNone     == [type |-> "NoneType", num |-> 0, text |-> <<>>]

\* isinstance(v, int): bool is a subclass of int
IsInstanceInt(v) == v.type \in {"int", "bool"}

\* isinstance(v, str)
IsInstanceStr(v) == v.type = "str"

\* truth value of a Python value, as `not v` tests it
Truthy(v) ==
    CASE v.type = "str"      -> Len(v.text) > 0
      [] v.type = "NoneType" -> FALSE
      [] OTHER               -> v.num # 0

Return(v) == [kind |-> "return", val |-> v, msg |-> <<>>]

\* raise ValidationError(m)
Raise(m) == [kind |-> "raise", val |-> PyNone, msg |-> m]

NoResult == [kind |-> "none", val |-> PyNone, msg |-> <<>>]

RECURSIVE NatToStr(_)
NatToStr(n) ==
    IF n < 10 THEN <<Chr(48 + n)>>
    ELSE NatToStr(n \div 10) \o <<Chr(48 + (n % 10))>>

\* str(n) for an int
IntToStr(n) == IF n < 0 THEN <<"-">> \o NatToStr(0 - n) ELSE NatToStr(n)

\* type(v).__name__
TypeName(v) ==
    CASE v.type = "int"   -> <<"i", "n", "t">>
      [] v.type = "bool"  -> <<"b", "o", "o", "l">>
      [] v.type = "float" -> <<"f", "l", "o", "a", "t">>
      [] v.type = "str"   -> <<"s", "t", "r">>
      [] OTHER            -> <<"N", "o", "n", "e", "T", "y", "p", "e">>

\* f"{v}" for the values the messages format: an int or a bool
Format(v) ==
    CASE v.type = "bool" -> (IF v.num = 1 THEN <<"T", "r", "u", "e">> ELSE <<"F", "a", "l", "s", "e">>)
      [] v.type = "str"  -> v.text
      [] OTHER           -> IntToStr(v.num)

----------------------------------------------------------------------------
(* Regular-expression pieces, positions 1-based; a position one past the   *)
(* last character is the end of the text.                                  *)

\* the literal lit occurs in s at position pos
LitAt(s, pos, lit) ==
    /\ pos + Len(lit) - 1 <= Len(s)
    /\ \A i \in 1..Len(lit) : s[pos + i - 1] = lit[i]

\* [Class]{n} matches in s at position pos
ClassCount(s, pos, Class, n) ==
    /\ pos + n - 1 <= Len(s)
    /\ \A i \in pos..(pos + n - 1) : s[i] \in Class

\* $ without re.MULTILINE: at the end of the text, or just before a
\* newline that is the last character of the text
AtDollar(s, pos) ==
    \/ pos = Len(s) + 1
    \/ pos = Len(s) /\ s[pos] = "\n"

----------------------------------------------------------------------------
(* validate_address                                                        *)

ADDRESS_BODY_LEN == 33

\* the prefixes of the four patterns, in the dictionary's order; the
\* pattern of prefix p is ^p[1-9A-HJ-NP-Za-km-z]{33}$
ADDRESS_PATTERNS == << <<"t", "z", "1">>, <<"t", "z", "2">>, <<"t", "z", "3">>, <<"K", "T", "1">> >>

\* pattern.match(address) for the pattern of the given prefix
PatternMatch(prefix, s) ==
    /\ LitAt(s, 1, prefix)
    /\ ClassCount(s, Len(prefix) + 1, Base58, ADDRESS_BODY_LEN)
    /\ AtDollar(s, Len(prefix) + ADDRESS_BODY_LEN + 1)

ECHO_LEN == 20

\* validate_address echoing the whole of the rejected text
validate_address_fullecho(address) ==
    IF ~Truthy(address) \/ ~IsInstanceStr(address)
    THEN Raise(<<"a", "d", "d", "r", "e", "s", "s", " ", "m", "u", "s", "t", " ", "b", "e", " ", "a", " ", "n", "o", "n", "-", "e", "m", "p", "t", "y", " ", "s", "t", "r", "i", "n", "g">>)
    ELSE IF \E k \in DOMAIN ADDRESS_PATTERNS :
                PatternMatch(ADDRESS_PATTERNS[k], address.text)
    THEN Return(address)
    ELSE Raise(<<"i", "n", "v", "a", "l", "i", "d", " ", "t", "e", "z", "o", "s", " ", "a", "d", "d", "r", "e", "s", "s", " ", "f", "o", "r", "m", "a", "t", ".", " ", "m", "u", "s", "t", " ", "b", "e", " ", "t", "z", "1", ",", " ", "t", "z", "2", ",", " ", "t", "z", "3", ",", " ", "o", "r", " ", "K", "T", "1", " ", "a", "d", "d", "r", "e", "s", "s", ".", " ", "g", "o", "t", ":", " ">>
               \o address.text
               \o <<".", ".", ".">>)

validate_address(address) ==
    IF ~Truthy(address) \/ ~IsInstanceStr(address)
    THEN Raise(<<"a", "d", "d", "r", "e", "s", "s", " ", "m", "u", "s", "t", " ", "b", "e", " ", "a", " ", "n", "o", "n", "-", "e", "m", "p", "t", "y", " ", "s", "t", "r", "i", "n", "g">>)
    ELSE IF \E k \in DOMAIN ADDRESS_PATTERNS :
                PatternMatch(ADDRESS_PATTERNS[k], address.text)
    THEN Return(address)
    ELSE Raise(<<"i", "n", "v", "a", "l", "i", "d", " ", "t", "e", "z", "o", "s", " ", "a", "d", "d", "r", "e", "s", "s", " ", "f", "o", "r", "m", "a", "t", ".", " ", "m", "u", "s", "t", " ", "b", "e", " ", "t", "z", "1", ",", " ", "t", "z", "2", ",", " ", "t", "z", "3", ",", " ", "o", "r", " ", "K", "T", "1", " ", "a", "d", "d", "r", "e", "s", "s", ".", " ", "g", "o", "t", ":", " ">>
               \o SubSeq(address.text, 1, Min(ECHO_LEN, Len(address.text)))
               \o <<".", ".", ".">>)

----------------------------------------------------------------------------
(* validate_network                                                        *)

ALLOWED_NETWORKS == { <<"m", "a", "i", "n", "n", "e", "t">>, <<"s", "h", "a", "d", "o", "w", "n", "e", "t">>, <<"g", "h", "o", "s", "t", "n", "e", "t">> }

\* a < b for two texts, as Python orders strings
LexLess(a, b) ==
    \E i \in 1..(Min(Len(a), Len(b)) + 1) :
        /\ \A j \in 1..(i - 1) : a[j] = b[j]
        /\ \/ i > Len(a) /\ i <= Len(b)
           \/ i <= Len(a) /\ i <= Len(b) /\ Ord[a[i]] < Ord[b[i]]

RECURSIVE sorted(_)
sorted(S) ==
    IF S = {} THEN <<>>
    ELSE LET m == CHOOSE x \in S : \A y \in S \ {x} : LexLess(x, y)
         IN  <<m>> \o sorted(S \ {m})

RECURSIVE join(_, _)
join(sep, items) ==
    IF Len(items) = 0 THEN <<>>
    ELSE IF Len(items) = 1 THEN items[1]
    ELSE items[1] \o sep \o join(sep, Tail(items))

\* validate_network without the call of lower()
validate_network_cased(network) ==
    IF ~Truthy(network) \/ ~IsInstanceStr(network)
    THEN Raise(<<"n", "e", "t", "w", "o", "r", "k", " ", "m", "u", "s", "t", " ", "b", "e", " ", "a", " ", "n", "o", "n", "-", "e", "m", "p", "t", "y", " ", "s", "t", "r", "i", "n", "g">>)
    ELSE LET n == strip(network.text)
         IN  IF n \notin ALLOWED_NETWORKS
             THEN Raise(<<"i", "n", "v", "a", "l", "i", "d", " ", "n", "e", "t", "w", "o", "r", "k">>)
             ELSE Return(PyStr(n))

validate_network(network) ==
    IF ~Truthy(network) \/ ~IsInstanceStr(network)
    THEN Raise(<<"n", "e", "t", "w", "o", "r", "k", " ", "m", "u", "s", "t", " ", "b", "e", " ", "a", " ", "n", "o", "n", "-", "e", "m", "p", "t", "y", " ", "s", "t", "r", "i", "n", "g">>)
    ELSE LET n == strip(lower(network.text))
         IN  IF n \notin ALLOWED_NETWORKS
             THEN Raise(<<"i", "n", "v", "a", "l", "i", "d", " ", "n", "e", "t", "w", "o", "r", "k", ".", " ", "a", "l", "l", "o", "w", "e", "d", ":", " ">>
                        \o join(<<",", " ">>, sorted(ALLOWED_NETWORKS))
                        \o <<".", " ", "g", "o", "t", ":", " ">> \o n)
             ELSE Return(PyStr(n))

----------------------------------------------------------------------------
(* validate_limit, validate_amount                                         *)

DEFAULT_MAX_LIMIT == 100

\* validate_limit clamping a too large limit to the maximum
validate_limit_clamped(limit, max_limit) ==
    IF ~IsInstanceInt(limit)
    THEN Raise(<<"l", "i", "m", "i", "t", " ", "m", "u", "s", "t", " ", "b", "e", " ", "a", "n", " ", "i", "n", "t", "e", "g", "e", "r", ".", " ", "g", "o", "t", " ", "t", "y", "p", "e", ":", " ">> \o TypeName(limit))
    ELSE IF limit.num < 1
    THEN Raise(<<"l", "i", "m", "i", "t", " ", "m", "u", "s", "t", " ", "b", "e", " ", "p", "o", "s", "i", "t", "i", "v", "e", ".", " ", "g", "o", "t", ":", " ">> \o Format(limit))
    ELSE IF limit.num > max_limit
    THEN Return(PyInt(max_limit))
    ELSE Return(limit)

validate_limit(limit, max_limit) ==
    IF ~IsInstanceInt(limit)
    THEN Raise(<<"l", "i", "m", "i", "t", " ", "m", "u", "s", "t", " ", "b", "e", " ", "a", "n", " ", "i", "n", "t", "e", "g", "e", "r", ".", " ", "g", "o", "t", " ", "t", "y", "p", "e", ":", " ">> \o TypeName(limit))
    ELSE IF limit.num < 1
    THEN Raise(<<"l", "i", "m", "i", "t", " ", "m", "u", "s", "t", " ", "b", "e", " ", "p", "o", "s", "i", "t", "i", "v", "e", ".", " ", "g", "o", "t", ":", " ">> \o Format(limit))
    ELSE IF limit.num > max_limit
    THEN Raise(<<"l", "i", "m", "i", "t", " ", "t", "o", "o", " ", "l", "a", "r", "g", "e", ".", " ", "m", "a", "x", "i", "m", "u", "m", ":", " ">> \o IntToStr(max_limit)
               \o <<".", " ", "g", "o", "t", ":", " ">> \o Format(limit))
    ELSE Return(limit)

RECURSIVE StripZeros(_)
StripZeros(d) ==
    IF Len(d) > 1 /\ d[Len(d)] = "0"
    THEN StripZeros(SubSeq(d, 1, Len(d) - 1))
    ELSE d

MUTEZ_PER_XTZ == 1000000

\* f"{n / 1_000_000}" for an int n >= 0: the shortest decimal that reads
\* back as the quotient, in exponent notation below 1e-04
TrueDivMillion(n) ==
    IF n = 0 THEN <<"0", ".", "0">>
    ELSE LET D == NatToStr(n)
             d == StripZeros(D)
             e == Len(D) - Len(NatToStr(MUTEZ_PER_XTZ))
         IN  IF e < -4
             THEN <<d[1]>>
                  \o (IF Len(d) > 1 THEN <<".">> \o Tail_(d, 2) ELSE <<>>)
                  \o <<"e", "-", "0">> \o NatToStr(0 - e)
             ELSE IF e < 0
             THEN <<"0", ".">> \o Rep("0", (0 - e) - 1) \o d
             ELSE LET ip == IF Len(d) >= e + 1 THEN SubSeq(d, 1, e + 1)
                            ELSE d \o Rep("0", e + 1 - Len(d))
                      fp == IF Len(d) > e + 1 THEN Tail_(d, e + 2) ELSE <<"0">>
                  IN  ip \o <<".">> \o fp

validate_amount(amount, max_amount) ==
    IF ~IsInstanceInt(amount)
    THEN Raise(<<"a", "m", "o", "u", "n", "t", " ", "m", "u", "s", "t", " ", "b", "e", " ", "a", "n", " ", "i", "n", "t", "e", "g", "e", "r", ".", " ", "g", "o", "t", " ", "t", "y", "p", "e", ":", " ">> \o TypeName(amount))
    ELSE IF amount.num < 0
    THEN Raise(<<"a", "m", "o", "u", "n", "t", " ", "c", "a", "n", "n", "o", "t", " ", "b", "e", " ", "n", "e", "g", "a", "t", "i", "v", "e", ".", " ", "g", "o", "t", ":", " ">> \o Format(amount))
    ELSE IF amount.num > max_amount
    THEN Raise(<<"a", "m", "o", "u", "n", "t", " ", "t", "o", "o", " ", "l", "a", "r", "g", "e", ".", " ", "m", "a", "x", "i", "m", "u", "m", ":", " ">> \o IntToStr(max_amount)
               \o <<" ", "m", "u", "t", "e", "z", " ", "(">> \o TrueDivMillion(max_amount)
               \o <<" ", "X", "T", "Z", ")", ".", " ", "g", "o", "t", ":", " ">> \o Format(amount))
    ELSE Return(amount)

----------------------------------------------------------------------------
(* re.sub: the patterns of the two sanitizers.  XMatchEnd(s, i) is the     *)
(* position just after the match of pattern X that starts at position i,   *)
(* and 0 when X does not match there; no pattern matches the empty text.   *)

\* where the greedy [Class]* that starts at position p stops
RunEnd(s, p, Class) ==
    CHOOSE q \in p..(Len(s) + 1) :
        /\ q = Len(s) + 1 \/ s[q] \notin Class
        /\ \A j \in p..(q - 1) : s[j] \in Class

\* where the greedy [^Class]* that starts at position p stops
RunEndNot(s, p, Class) ==
    CHOOSE q \in p..(Len(s) + 1) :
        /\ q = Len(s) + 1 \/ s[q] \in Class
        /\ \A j \in p..(q - 1) : s[j] \notin Class

\* \b at position p: exactly one of the characters before and at p is a
\* word character
WordBoundary(s, p) ==
    (p > 1 /\ s[p - 1] \in WordChar) # (p <= Len(s) /\ s[p] \in WordChar)

\* [A-Za-z]:[\\\/] at position b
DriveAt(s, b) ==
    /\ b + 2 <= Len(s)
    /\ s[b] \in Letter
    /\ s[b + 1] = ":"
    /\ s[b + 2] \in {"\\", "/"}

\* the tail [^"']*["']? of both path patterns, from position p
PathTailEnd(s, p) ==
    LET q == RunEndNot(s, p, Quote)
    IN  IF q <= Len(s) THEN q + 1 ELSE q

\* ["']?[A-Za-z]:[\\\/][^"']*["']?
DriveMatchEnd(s, i) ==
    LET b == IF i <= Len(s) /\ s[i] \in Quote /\ DriveAt(s, i + 1) THEN i + 1 ELSE i
    IN  IF DriveAt(s, b) THEN PathTailEnd(s, b + 3) ELSE 0

\* ["']?\/[^"']*["']?
PosixMatchEnd(s, i) ==
    LET b == IF i < Len(s) /\ s[i] \in Quote /\ s[i + 1] = "/" THEN i + 1 ELSE i
    IN  IF b <= Len(s) /\ s[b] = "/" THEN PathTailEnd(s, b + 1) ELSE 0

MIN_SECRET_LEN == 50

\* [1-9A-HJ-NP-Za-km-z]{50,}\b from position p: the longest run of at
\* least 50 characters that ends at a word boundary
SecretRunEnd(s, p) ==
    LET q == RunEnd(s, p, Base58)
        K == {k \in (p + MIN_SECRET_LEN)..q : WordBoundary(s, k)}
    IN  IF K = {} THEN 0 ELSE CHOOSE k \in K : \A k2 \in K : k2 <= k

\* \b[1-9A-HJ-NP-Za-km-z]{50,}\b
SecretMatchEnd(s, i) ==
    IF WordBoundary(s, i) THEN SecretRunEnd(s, i) ELSE 0

\* https?://[^:]+:[^@]+@[^\s]+
UrlMatchEnd(s, i) ==
    IF ~LitAt(s, i, <<"h", "t", "t", "p">>) THEN 0
    ELSE LET p == IF i + 4 <= Len(s) /\ s[i + 4] = "s" THEN i + 5 ELSE i + 4
             u == p + 3
             c == RunEndNot(s, u, {":"})
             a == RunEndNot(s, c + 1, {"@"})
             h == RunEndNot(s, a + 1, Whitespace)
         IN  IF /\ LitAt(s, p, <<":", "/", "/">>)
                /\ c > u /\ c <= Len(s)
                /\ a > c + 1 /\ a <= Len(s)
                /\ h > a + 1
             THEN h ELSE 0

KEY_PREFIXES == << <<"e", "d", "s", "k">>, <<"s", "p", "s", "k">>, <<"p", "2", "s", "k">> >>

\* \bedsk[1-9A-HJ-NP-Za-km-z]{50,}\b, and the same for spsk and p2sk
KeyMatchEnd(prefix, s, i) ==
    IF WordBoundary(s, i) /\ LitAt(s, i, prefix)
    THEN SecretRunEnd(s, i + Len(prefix))
    ELSE 0

MIN_WORD_LEN == 3
MIN_WORDS == 12

\* (?:\s+[a-z]{3,}){8,}\b after n words, the last of which ends before
\* position e: one more word if the rest then matches, else stop here.
\* A word or a gap shorter than its run is followed by a character of the
\* same class, on which the next piece of the pattern fails, so only the
\* whole runs are tried.
RECURSIVE WordChain(_, _, _)
WordChain(s, e, n) ==
    LET w   == RunEnd(s, e, Whitespace)
        e2  == RunEnd(s, w, Letter)
        ext == IF w > e /\ e2 - w >= MIN_WORD_LEN THEN WordChain(s, e2, n + 1) ELSE 0
    IN  IF ext # 0 THEN ext
        ELSE IF n >= MIN_WORDS /\ WordBoundary(s, e) THEN e
        ELSE 0

\* \b[a-z]{3,}\s+[a-z]{3,}\s+[a-z]{3,}\s+[a-z]{3,}(?:\s+[a-z]{3,}){8,}\b
\* with re.IGNORECASE
MnemonicMatchEnd(s, i) ==
    LET e1 == RunEnd(s, i, Letter)
    IN  IF WordBoundary(s, i) /\ e1 - i >= MIN_WORD_LEN THEN WordChain(s, e1, 1) ELSE 0

MatchEnd(pat, s, i) ==
    CASE pat = "drive"    -> DriveMatchEnd(s, i)
      [] pat = "posix"    -> PosixMatchEnd(s, i)
      [] pat = "secret"   -> SecretMatchEnd(s, i)
      [] pat = "url"      -> UrlMatchEnd(s, i)
      [] pat = "edsk"     -> KeyMatchEnd(KEY_PREFIXES[1], s, i)
      [] pat = "spsk"     -> KeyMatchEnd(KEY_PREFIXES[2], s, i)
      [] pat = "p2sk"     -> KeyMatchEnd(KEY_PREFIXES[3], s, i)
      [] pat = "mnemonic" -> MnemonicMatchEnd(s, i)

Replacement(pat) ==
    CASE pat \in {"drive", "posix"} -> <<"[", "P", "A", "T", "H", "]">>
      [] pat = "secret"   -> <<"[", "R", "E", "D", "A", "C", "T", "E", "D", "]">>
      [] pat = "url"      -> <<"h", "t", "t", "p", "s", ":", "/", "/", "[", "R", "E", "D", "A", "C", "T", "E", "D", "]">>
      [] pat = "edsk"     -> <<"e", "d", "s", "k", "[", "R", "E", "D", "A", "C", "T", "E", "D", "]">>
      [] pat = "spsk"     -> <<"s", "p", "s", "k", "[", "R", "E", "D", "A", "C", "T", "E", "D", "]">>
      [] pat = "p2sk"     -> <<"p", "2", "s", "k", "[", "R", "E", "D", "A", "C", "T", "E", "D", "]">>
      [] pat = "mnemonic" -> <<"[", "M", "N", "E", "M", "O", "N", "I", "C", "]">>

\* the start of the leftmost match at or after position pos, and one past
\* the end of the text when there is none
Search(pat, s, pos) ==
    CHOOSE k \in pos..(Len(s) + 1) :
        /\ k = Len(s) + 1 \/ MatchEnd(pat, s, k) # 0
        /\ \A j \in pos..(k - 1) : MatchEnd(pat, s, j) = 0

RECURSIVE re_sub(_, _, _)

\* the text from position pos on, given the start i of its leftmost match:
\* what precedes the match, the replacement, then the same after the match
SubFrom(pat, s, pos, i) ==
    IF i > Len(s) THEN Tail_(s, pos)
    ELSE SubSeq(s, pos, i - 1) \o Replacement(pat) \o re_sub(pat, s, MatchEnd(pat, s, i))

\* re.sub(pat, repl, s), from position pos on
re_sub(pat, s, pos) == SubFrom(pat, s, pos, Search(pat, s, pos))

----------------------------------------------------------------------------
(* sanitize_error_message                                                  *)

PyExc(t) == [type |-> "Exception", num |-> 0, text |-> t]

\* str(error)
str(v) == v.text

\* the path passes without the pass for POSIX paths
AfterPaths_driveonly(s) == re_sub("drive", s, 1)

\* the text after the two path passes
AfterPaths(s) == re_sub("posix", re_sub("drive", s, 1), 1)

\* the text after the private-key pass
AfterSecrets(s) == re_sub("secret", AfterPaths(s), 1)

\* the text after the credential-URL pass
AfterUrls(s) == re_sub("url", AfterSecrets(s), 1)

TRUNCATE_LEN == 200

\* the truncation cutting one character early and adding no marker
Truncate_nomarker(s) ==
    IF Len(s) >= TRUNCATE_LEN THEN SubSeq(s, 1, TRUNCATE_LEN - 1) ELSE s

Truncate(s) ==
    IF Len(s) > TRUNCATE_LEN THEN SubSeq(s, 1, TRUNCATE_LEN) \o <<".", ".", ".">> ELSE s

sanitize_error_message(error) == Truncate(AfterUrls(str(error)))

----------------------------------------------------------------------------
(* sanitize_log_message                                                    *)

\* len(message.split())
CountWords(s) ==
    Cardinality({i \in 1..Len(s) :
                    s[i] \notin Whitespace /\ (i = 1 \/ s[i - 1] \in Whitespace)})

AfterKeys(s) == re_sub("p2sk", re_sub("spsk", re_sub("edsk", s, 1), 1), 1)

\* sanitize_log_message asking for more than twelve tokens
sanitize_log_message_strict(message) ==
    LET m == AfterKeys(message)
    IN  IF CountWords(m) > MIN_WORDS THEN re_sub("mnemonic", m, 1) ELSE m

sanitize_log_message(message) ==
    LET m == AfterKeys(message)
    IN  IF CountWords(m) >= MIN_WORDS THEN re_sub("mnemonic", m, 1) ELSE m

----------------------------------------------------------------------------
(* The servers at rest, while the functions of security.py are called      *)
(* on their own.                                                           *)

NoTool == [server |-> "none", name |-> "none"]

NoParams == [address |-> PyNone, network |-> PyNone, limit |-> PyNone,
             amount |-> PyNone, entry_point |-> PyNone, code |-> PyNone,
             storage |-> PyNone, level |-> PyNone,
             private_key |-> PyNone, env_key |-> PyNone]

NoExc == [kind |-> "none", text |-> <<>>]

NoResponse == [kind |-> "none", text |-> <<>>, via |-> "none"]

ServerIdle ==
    /\ tool = NoTool
    /\ params = NoParams
    /\ pc = 0
    /\ status = "idle"
    /\ trace = <<>>
    /\ passed = {}
    /\ exc = NoExc
    /\ response = NoResponse
    /\ logged = <<>>

----------------------------------------------------------------------------
(* Inputs of the validators.                                               *)

MaxPad == 1
MaxNum == 3

Insert(s, p, c) == SubSeq(s, 1, p) \o <<c>> \o Tail_(s, p + 1)
Remove(s, p)    == SubSeq(s, 1, p - 1) \o Tail_(s, p + 1)
Subst(s, p, c)  == [s EXCEPT ![p] = c]

AddressBodies ==
    { Rep("a", ADDRESS_BODY_LEN),
      [i \in 1..ADDRESS_BODY_LEN |-> IF i % 2 = 1 THEN "9" ELSE "Z"] }

ValidAddresses ==
    { ADDRESS_PATTERNS[k] \o b : k \in DOMAIN ADDRESS_PATTERNS, b \in AddressBodies }

EditChars == {"a", "0", "O", "I", "l", " ", "\n", "_"}

\* the valid addresses and every text one edit away from one of them at
\* the first, the last, and the prefix/body boundary positions
AddressTexts ==
    ValidAddresses
    \cup { Insert(v, p, c) : v \in ValidAddresses, p \in {0, 3, 36}, c \in EditChars }
    \cup { Remove(v, p) : v \in ValidAddresses, p \in {1, 4, 36} }
    \cup { Subst(v, p, c) : v \in ValidAddresses, p \in {1, 3, 4, 36}, c \in EditChars }
    \cup { <<"t", "z", "1", "a", "b", "c">>, <<>> }

UpperChar == [c \in Char |-> IF c \in CharRange("a", "z") THEN Chr(Ord[c] - 32) ELSE c]

Cased(w, mode) ==
    CASE mode = "upper" -> [i \in 1..Len(w) |-> UpperChar[w[i]]]
      [] mode = "cap"   -> [i \in 1..Len(w) |-> IF i = 1 THEN UpperChar[w[i]] ELSE w[i]]
      [] OTHER          -> w

PadChars == {" ", "\t", "\n"}

Pads == UNION { [1..k -> PadChars] : k \in 0..MaxPad }

NetworkWords ==
    ALLOWED_NETWORKS \cup { <<"m", "a", "i", "n", "e", "t">>, <<"m", "a", "i", "n", "n", "e", "t", "s">>, <<"t", "e", "s", "t", "n", "e", "t">>, <<"m", "a", "i", "n", " ", "n", "e", "t">>, <<>>,
                         Rep("x", TRUNCATE_LEN) }

NetworkTexts ==
    { l \o Cased(w, m) \o r :
        l \in Pads, r \in Pads, w \in NetworkWords, m \in {"lower", "upper", "cap"} }

NumberValues ==
    { PyInt(n) : n \in ((0 - 2)..(MaxNum + 2)) \cup {50, 100, 101, 500} }
    \cup { PyBool(n) : n \in {0, 1} }
    \cup { PyFloat(n) : n \in {0, 1, 50} }
    \cup { PyStr(<<"5", "0">>), PyNone }

MaxArgs == (0..MaxNum) \cup {DEFAULT_MAX_LIMIT}

ValidateInputs ==
    ({ PyStr(t) : t \in AddressTexts \cup NetworkTexts } \X {DEFAULT_MAX_LIMIT})
    \cup (NumberValues \X MaxArgs)

----------------------------------------------------------------------------
(* The validators as calls.                                                *)

InitValidate ==
    /\ \E p \in ValidateInputs : arg = p[1] /\ maxArg = p[2]
    /\ fn = "none"
    /\ ret = NoResult
    /\ round = 0
    /\ ServerIdle

CallValidateAddress ==
    /\ fn = "none"
    /\ fn' = "validate_address"
    /\ ret' = validate_address(arg)
    /\ UNCHANGED <<arg, maxArg, round>>
    /\ UNCHANGED serverVars

CallValidateNetwork ==
    /\ fn = "none"
    /\ fn' = "validate_network"
    /\ ret' = validate_network(arg)
    /\ UNCHANGED <<arg, maxArg, round>>
    /\ UNCHANGED serverVars

CallValidateLimit ==
    /\ fn = "none"
    /\ fn' = "validate_limit"
    /\ ret' = validate_limit(arg, maxArg)
    /\ UNCHANGED <<arg, maxArg, round>>
    /\ UNCHANGED serverVars

CallValidateAmount ==
    /\ fn = "none"
    /\ fn' = "validate_amount"
    /\ ret' = validate_amount(arg, maxArg)
    /\ UNCHANGED <<arg, maxArg, round>>
    /\ UNCHANGED serverVars

NextValidate ==
    \/ CallValidateAddress
    \/ CallValidateNetwork
    \/ CallValidateLimit
    \/ CallValidateAmount

SpecValidate == InitValidate /\ [][NextValidate]_vars

----------------------------------------------------------------------------
(* Claims about the validators.                                            *)

\* the grammar of an address: a three-character family prefix, then
\* exactly 33 characters of the base-58 alphabet, and nothing else
InAddressGrammar(s) ==
    /\ Len(s) = 36
    /\ SubSeq(s, 1, 3) \in { <<"t", "z", "1">>, <<"t", "z", "2">>, <<"t", "z", "3">>, <<"K", "T", "1">> }
    /\ \A i \in 4..36 :
          s[i] \in (CharRange("0", "9") \cup Letter) \ {"0", "O", "I", "l"}

\* C1: validate_address returns s unchanged exactly when the whole of s
\* is in the address grammar, and raises for every other non-empty string,
\* a valid address with one character added, removed or replaced included.
C1_AddressExactGrammar ==
    (fn = "validate_address" /\ arg.type = "str" /\ arg.text # <<>>)
        => IF InAddressGrammar(arg.text)
           THEN ret = Return(arg)
           ELSE ret.kind = "raise"

\* C2: for an int v, validate_limit succeeds exactly when 1 <= v <= max and
\* validate_amount exactly when 0 <= v <= max; a success returns v itself,
\* an out-of-range v raises and is never clamped into range.
C2_BoundsExact ==
    /\ (fn = "validate_limit" /\ arg.type = "int")
          => IF 1 <= arg.num /\ arg.num <= maxArg
             THEN ret.kind = "return" /\ ret.val = arg
             ELSE ret.kind = "raise"
    /\ (fn = "validate_amount" /\ arg.type = "int")
          => IF 0 <= arg.num /\ arg.num <= maxArg
             THEN ret.kind = "return" /\ ret.val = arg
             ELSE ret.kind = "raise"

C2_Witness ==
    /\ fn = "validate_limit"
    /\ arg = PyInt(50)
    /\ maxArg = 100
    /\ ret = Return(PyInt(50))

\* C3: validate_limit and validate_amount raise the wrong-type error for
\* every input whose runtime type is not exactly int (float, str, bool,
\* None) and never return such an input.
C3_NonIntRejected ==
    /\ (fn = "validate_limit" /\ arg.type # "int")
          => /\ ret.kind = "raise"
             /\ ret.msg = <<"l", "i", "m", "i", "t", " ", "m", "u", "s", "t", " ", "b", "e", " ", "a", "n", " ", "i", "n", "t", "e", "g", "e", "r", ".", " ", "g", "o", "t", " ", "t", "y", "p", "e", ":", " ">> \o TypeName(arg)
    /\ (fn = "validate_amount" /\ arg.type # "int")
          => /\ ret.kind = "raise"
             /\ ret.msg = <<"a", "m", "o", "u", "n", "t", " ", "m", "u", "s", "t", " ", "b", "e", " ", "a", "n", " ", "i", "n", "t", "e", "g", "e", "r", ".", " ", "g", "o", "t", " ", "t", "y", "p", "e", ":", " ">> \o TypeName(arg)

\* s is the name n in any letter case between two runs of whitespace
IsPaddedName(s, n) ==
    \E i \in 0..Len(s) :
        /\ i + Len(n) <= Len(s)
        /\ \A j \in 1..i : s[j] \in Whitespace
        /\ \A j \in (i + Len(n) + 1)..Len(s) : s[j] \in Whitespace
        /\ \A k \in 1..Len(n) : s[i + k] \in {n[k], UpperChar[n[k]]}

\* C4: validate_network succeeds exactly on the three names written in any
\* letter case with surrounding whitespace, returns the lowercase trimmed
\* name, raises for every other string, and so only ever returns a member
\* of the whitelist.
C4_NetworkWhitelist ==
    (fn = "validate_network" /\ arg.type = "str")
        => /\ \A n \in { <<"m", "a", "i", "n", "n", "e", "t">>, <<"s", "h", "a", "d", "o", "w", "n", "e", "t">>, <<"g", "h", "o", "s", "t", "n", "e", "t">> } :
                 IsPaddedName(arg.text, n) => ret = Return(PyStr(n))
           /\ (\A n \in { <<"m", "a", "i", "n", "n", "e", "t">>, <<"s", "h", "a", "d", "o", "w", "n", "e", "t">>, <<"g", "h", "o", "s", "t", "n", "e", "t">> } :
                 ~IsPaddedName(arg.text, n)) => ret.kind = "raise"
           /\ ret.kind = "return"
                 => ret.val.text \in { <<"m", "a", "i", "n", "n", "e", "t">>, <<"s", "h", "a", "d", "o", "w", "n", "e", "t">>, <<"g", "h", "o", "s", "t", "n", "e", "t">> }

C4_Witness ==
    /\ fn = "validate_network"
    /\ arg.text \in { <<"M", "A", "I", "N", "N", "E", "T">>, <<"m", "a", "i", "n", "n", "e", "t", " ">> }
    /\ ret = Return(PyStr(<<"m", "a", "i", "n", "n", "e", "t">>))

----------------------------------------------------------------------------
(* Inputs of the sanitizers: a filler, then up to MaxSegs pieces.          *)

MaxSegs == 2

RECURSIVE Concat(_)
Concat(ps) == IF Len(ps) = 0 THEN <<>> ELSE ps[1] \o Concat(Tail(ps))

PieceSeqs(Pieces) == UNION { [1..k -> Pieces] : k \in 0..MaxSegs }

SamplePaths == { <<"/", "e", "t", "c", "/", "p", "a", "s", "s", "w", "d">>, <<"C", ":", "\\", "d", "i", "r", "\\", "f", "i", "l", "e">> }

SampleUrls == { <<"h", "t", "t", "p", "s", ":", "/", "/", "u", "s", "e", "r", ":", "p", "a", "s", "s", "@", "h", "o", "s", "t", "/", "p", "a", "t", "h">> }

ErrorPieces ==
    SamplePaths \cup SampleUrls
    \cup { Rep("a", MIN_SECRET_LEN - 1), Rep("a", MIN_SECRET_LEN), Rep("a", MIN_SECRET_LEN + 5),
           <<"_">>, <<"0">>, <<" ">>, <<"'">>, <<" ", "f", "a", "i", "l", "e", "d">>, <<"o", "p", "e", "n", " ">> }

ErrorFillers ==
    { Rep("-", n) : n \in {0, TRUNCATE_LEN - MIN_SECRET_LEN, TRUNCATE_LEN} }

ErrorTexts == { f \o Concat(ps) : f \in ErrorFillers, ps \in PieceSeqs(ErrorPieces) }

LogKeys ==
    { KEY_PREFIXES[k] \o Rep("a", n) :
        k \in DOMAIN KEY_PREFIXES, n \in {MIN_SECRET_LEN - 1, MIN_SECRET_LEN} }

\* eleven words of a seed phrase, each followed by a blank
ElevenWords == Concat([i \in 1..(MIN_WORDS - 1) |-> <<"a", "b", "c", " ">>])

\* eleven words of a seed phrase, each after a blank
ElevenMore == Concat([i \in 1..(MIN_WORDS - 1) |-> <<" ", "a", "b", "c">>])

LogPieces ==
    LogKeys
    \cup { ElevenMore, <<"-">>, <<"_">>, <<"0">>, <<" ">>, <<"k", "e", "y", "=">>, ElevenWords, <<"d", "e", "f">>, <<"d", "e">>, <<"x", "1">>,
           Rep("-", TRUNCATE_LEN + 1) }

LogTexts == { Concat(ps) : ps \in PieceSeqs(LogPieces) }

----------------------------------------------------------------------------
(* The error sanitizer as calls: once on an error, then on its own output. *)

InitError ==
    /\ arg \in { PyExc(t) : t \in ErrorTexts }
    /\ maxArg = 0
    /\ fn = "none"
    /\ ret = NoResult
    /\ round = 0
    /\ ServerIdle

CallSanitizeError ==
    /\ fn = "none"
    /\ fn' = "sanitize_error_message"
    /\ ret' = Return(PyStr(sanitize_error_message(arg)))
    /\ round' = 1
    /\ UNCHANGED <<arg, maxArg>>
    /\ UNCHANGED serverVars

\* the output of the first call is the text of the error of the second
CallSanitizeErrorAgain ==
    /\ fn = "sanitize_error_message"
    /\ round = 1
    /\ arg' = PyExc(ret.val.text)
    /\ ret' = Return(PyStr(sanitize_error_message(PyExc(ret.val.text))))
    /\ round' = 2
    /\ UNCHANGED <<fn, maxArg>>
    /\ UNCHANGED serverVars

NextError ==
    \/ CallSanitizeError
    \/ CallSanitizeErrorAgain

SpecError == InitError /\ [][NextError]_vars

----------------------------------------------------------------------------
(* The log sanitizer as a call.                                            *)

InitLog ==
    /\ arg \in { PyStr(t) : t \in LogTexts }
    /\ maxArg = 0
    /\ fn = "none"
    /\ ret = NoResult
    /\ round = 0
    /\ ServerIdle

CallSanitizeLog ==
    /\ fn = "none"
    /\ fn' = "sanitize_log_message"
    /\ ret' = Return(PyStr(sanitize_log_message(arg.text)))
    /\ UNCHANGED <<arg, maxArg, round>>
    /\ UNCHANGED serverVars

NextLog == CallSanitizeLog

SpecLog == InitLog /\ [][NextLog]_vars

----------------------------------------------------------------------------
(* Claims about the sanitizers.                                            *)

\* the text t occurs in s
Contains(s, t) == \E i \in 1..(Len(s) - Len(t) + 1) : LitAt(s, i, t)

\* s has n consecutive base-58 characters
HasSecretRun(s, n) == \E i \in 1..(Len(s) - n + 1) : ClassCount(s, i, Base58, n)

\* C5: sanitize_error_message is idempotent: applied to its own output it
\* returns that output unchanged, also after a truncation.
C5_Idempotent ==
    (fn = "sanitize_error_message" /\ round = 2) => ret.val.text = arg.text

\* C6: a text with a credential URL http(s)://user:password@host comes out
\* with https://[REDACTED] in the URL's place and with nothing of the user
\* name or the password (texts within the truncation limit).
C6_CredentialUrlRedacted ==
    (/\ fn = "sanitize_error_message" /\ round = 1
     /\ Len(arg.text) <= TRUNCATE_LEN
     /\ Contains(arg.text, <<"h", "t", "t", "p", "s", ":", "/", "/", "u", "s", "e", "r", ":", "p", "a", "s", "s", "@", "h", "o", "s", "t", "/", "p", "a", "t", "h">>))
        => /\ Contains(ret.val.text, <<"h", "t", "t", "p", "s", ":", "/", "/", "[", "R", "E", "D", "A", "C", "T", "E", "D", "]">>)
           /\ ~Contains(ret.val.text, <<"u", "s", "e", "r">>)
           /\ ~Contains(ret.val.text, <<"p", "a", "s", "s">>)

\* C7: the output of sanitize_error_message has no run of 50 or more
\* consecutive base-58 characters, whatever surrounds the run in the input.
C7_NoSecretRunLeft ==
    (fn = "sanitize_error_message" /\ round = 1)
        => ~HasSecretRun(ret.val.text, 50)

\* C8: the output of sanitize_error_message is the redacted text when that
\* has at most 200 characters, and otherwise its first 200 characters
\* followed by "...", so never more than 203 characters.
C8_TruncatedAt200 ==
    (fn = "sanitize_error_message" /\ round = 1)
        => LET red == AfterUrls(arg.text)
               out == ret.val.text
           IN  /\ Len(out) <= 203
               /\ Len(red) <= 200 => out = red
               /\ Len(red) > 200 =>
                    /\ Len(out) = 203
                    /\ \A i \in 1..200 : out[i] = red[i]
                    /\ \A i \in 201..203 : out[i] = "."

C8_Witness ==
    /\ fn = "sanitize_error_message" /\ round = 1
    /\ Len(AfterUrls(arg.text)) = 201
    /\ Len(ret.val.text) = 203
    /\ ret.val.text[203] = "."

\* C9: a text with a POSIX absolute path or a drive-letter path comes out
\* with [PATH] in the path's place, with nothing of the path, and with the
\* text after the path preserved (texts within the truncation limit).
C9_PathReplacedInPlace ==
    (/\ fn = "sanitize_error_message" /\ round = 1
     /\ Len(arg.text) <= TRUNCATE_LEN)
        => \A path \in { <<"/", "e", "t", "c", "/", "p", "a", "s", "s", "w", "d">>, <<"C", ":", "\\", "d", "i", "r", "\\", "f", "i", "l", "e">> } :
              Contains(arg.text, path \o <<" ", "f", "a", "i", "l", "e", "d">>)
                 => /\ Contains(ret.val.text, <<"[", "P", "A", "T", "H", "]", " ", "f", "a", "i", "l", "e", "d">>)
                    /\ ~Contains(ret.val.text, path)

\* a key prefix followed by n or more base-58 characters occurs in s
HasPrefixedSecret(s, n) ==
    \E prefix \in { <<"e", "d", "s", "k">>, <<"s", "p", "s", "k">>, <<"p", "2", "s", "k">> } :
        \E i \in 1..(Len(s) - Len(prefix) - n + 1) :
            LitAt(s, i, prefix) /\ ClassCount(s, i + Len(prefix), Base58, n)

\* C10: a text with edsk, spsk or p2sk immediately followed by 50 or more
\* base-58 characters comes out of sanitize_log_message with the prefix
\* followed by [REDACTED] in its place and with nothing of the secret run;
\* the rest of the text is not truncated.
C10_PrefixedKeyRedacted ==
    (fn = "sanitize_log_message" /\ HasPrefixedSecret(arg.text, 50))
        => /\ \E prefix \in { <<"e", "d", "s", "k">>, <<"s", "p", "s", "k">>, <<"p", "2", "s", "k">> } :
                 Contains(ret.val.text, prefix \o <<"[", "R", "E", "D", "A", "C", "T", "E", "D", "]">>)
           /\ ~HasPrefixedSecret(ret.val.text, 50)

\* one past the end of the word that starts at position i, and 0 when no
\* word starts there: a word is three or more letters with no letter,
\* digit or underscore right before or right after them
WordEnd(s, i) ==
    LET e == RunEnd(s, i, Letter)
    IN  IF /\ i <= Len(s)
           /\ i = 1 \/ s[i - 1] \notin WordChar
           /\ e - i >= 3
           /\ e > Len(s) \/ s[e] \notin WordChar
        THEN e ELSE 0

\* the number of consecutive words, whitespace between them, from position i
RECURSIVE WordsFrom(_, _)
WordsFrom(s, i) ==
    IF WordEnd(s, i) = 0 THEN 0
    ELSE LET e == WordEnd(s, i)
             w == RunEnd(s, e, Whitespace)
         IN  1 + (IF w > e THEN WordsFrom(s, w) ELSE 0)

\* s has a run of n or more words
HasWordRun(s, n) == \E i \in 1..Len(s) : WordsFrom(s, i) >= n

----------------------------------------------------------------------------
(* Claims about the messages of the validators.                            *)

\* C12: when validate_address rejects a non-empty string, the message is
\* its fixed text, which names tz1, tz2, tz3 and KT1, then the first 20
\* characters of the rejected text (the whole text when it is shorter) and
\* the marker "...": what is echoed is never longer than 20 characters.
C12_EchoAtMost20 ==
    (/\ fn = "validate_address" /\ arg.type = "str" /\ arg.text # <<>>
     /\ ret.kind = "raise")
        => LET head == <<"i", "n", "v", "a", "l", "i", "d", " ", "t", "e", "z", "o", "s", " ", "a", "d", "d", "r", "e", "s", "s", " ", "f", "o", "r", "m", "a", "t", ".", " ", "m", "u", "s", "t", " ", "b", "e", " ", "t", "z", "1", ",", " ", "t", "z", "2", ",", " ", "t", "z", "3", ",", " ", "o", "r", " ", "K", "T", "1", " ", "a", "d", "d", "r", "e", "s", "s", ".", " ", "g", "o", "t", ":", " ">>
               echo == SubSeq(ret.msg, Len(head) + 1, Len(ret.msg) - 3)
           IN  /\ Len(ret.msg) >= Len(head) + 3
               /\ SubSeq(ret.msg, 1, Len(head)) = head
               /\ SubSeq(ret.msg, Len(ret.msg) - 2, Len(ret.msg)) = <<".", ".", ".">>
               /\ Len(echo) <= 20
               /\ Len(echo) <= Len(arg.text)
               /\ echo = SubSeq(arg.text, 1, Len(echo))
               /\ Len(arg.text) <= 20 => echo = arg.text
               /\ \A prefix \in {<<"t", "z", "1">>, <<"t", "z", "2">>, <<"t", "z", "3">>, <<"K", "T", "1">>} : Contains(head, prefix)

C12_Witness ==
    /\ fn = "validate_address"
    /\ arg.text = <<"t", "z", "1", "a", "b", "c">>
    /\ ret.kind = "raise"
    /\ Contains(ret.msg, <<"g", "o", "t", ":", " ", "t", "z", "1", "a", "b", "c", ".", ".", ".">>)

\* C13: when validate_network rejects a non-empty string, the message
\* lists ghostnet, mainnet, shadownet in this order, then gives the
\* lowercased and trimmed rejected value, and is no longer than the longest
\* error text the policy allows (200 characters and the marker), however
\* long the input is.
C13_MessageBounded ==
    (/\ fn = "validate_network" /\ arg.type = "str" /\ arg.text # <<>>
     /\ ret.kind = "raise")
        => /\ ret.msg = <<"i", "n", "v", "a", "l", "i", "d", " ", "n", "e", "t", "w", "o", "r", "k", ".", " ", "a", "l", "l", "o", "w", "e", "d", ":", " ", "g", "h", "o", "s", "t", "n", "e", "t", ",", " ", "m", "a", "i", "n", "n", "e", "t", ",", " ", "s", "h", "a", "d", "o", "w", "n", "e", "t", ".", " ", "g", "o", "t", ":", " ">>
                           \o strip(lower(arg.text))
           /\ Len(ret.msg) <= 203

\* C14: validate_limit and validate_amount report a value that is not an
\* int as a wrong type whatever its value, then an int below the minimum
\* as too small even when it is also above the maximum, then an int above
\* the maximum as too large with the maximum in force in the message; the
\* three messages differ from one another.
C14_FailureOrder ==
    /\ fn = "validate_limit" =>
          LET wrong == <<"l", "i", "m", "i", "t", " ", "m", "u", "s", "t", " ", "b", "e", " ", "a", "n", " ", "i", "n", "t", "e", "g", "e", "r", ".", " ", "g", "o", "t", " ", "t", "y", "p", "e", ":", " ">> \o TypeName(arg)
              small == <<"l", "i", "m", "i", "t", " ", "m", "u", "s", "t", " ", "b", "e", " ", "p", "o", "s", "i", "t", "i", "v", "e", ".", " ", "g", "o", "t", ":", " ">> \o Format(arg)
              large == <<"l", "i", "m", "i", "t", " ", "t", "o", "o", " ", "l", "a", "r", "g", "e", ".", " ", "m", "a", "x", "i", "m", "u", "m", ":", " ">> \o IntToStr(maxArg) \o <<".", " ", "g", "o", "t", ":", " ">> \o Format(arg)
          IN  /\ wrong # small /\ wrong # large /\ small # large
              /\ arg.type # "int" => ret = Raise(wrong)
              /\ (arg.type = "int" /\ arg.num < 1) => ret = Raise(small)
              /\ (arg.type = "int" /\ arg.num >= 1 /\ arg.num > maxArg) => ret = Raise(large)
    /\ fn = "validate_amount" =>
          LET wrong == <<"a", "m", "o", "u", "n", "t", " ", "m", "u", "s", "t", " ", "b", "e", " ", "a", "n", " ", "i", "n", "t", "e", "g", "e", "r", ".", " ", "g", "o", "t", " ", "t", "y", "p", "e", ":", " ">> \o TypeName(arg)
              small == <<"a", "m", "o", "u", "n", "t", " ", "c", "a", "n", "n", "o", "t", " ", "b", "e", " ", "n", "e", "g", "a", "t", "i", "v", "e", ".", " ", "g", "o", "t", ":", " ">> \o Format(arg)
              large == <<"a", "m", "o", "u", "n", "t", " ", "t", "o", "o", " ", "l", "a", "r", "g", "e", ".", " ", "m", "a", "x", "i", "m", "u", "m", ":", " ">> \o IntToStr(maxArg) \o <<" ", "m", "u", "t", "e", "z", " ", "(">>
          IN  /\ wrong # small /\ wrong # large /\ small # large
              /\ arg.type # "int" => ret = Raise(wrong)
              /\ (arg.type = "int" /\ arg.num < 0) => ret = Raise(small)
              /\ (arg.type = "int" /\ arg.num >= 0 /\ arg.num > maxArg)
                    => ret.kind = "raise" /\ LitAt(ret.msg, 1, large)

----------------------------------------------------------------------------
(* The tool operations of the two servers, src/server.py and               *)
(* src/server_readonly.py.  A handler is the sequence of its steps; a      *)
(* step that raises hands over to the except clauses of the handler.       *)

Tool(server, name) == [server |-> server, name |-> name]

ServerTools ==
    { Tool("server", n) : n \in
        { "get_balance", "get_contract_storage", "get_operations",
          "get_block_info", "call_contract", "originate_contract",
          "send_transaction", "generate_address", "sign_message",
          "verify_signature", "get_network_info" } }

ReadonlyTools ==
    { Tool("server_readonly", n) : n \in
        { "get_balance", "get_operations", "get_block_info", "get_network_info" } }

Tools == ServerTools \cup ReadonlyTools

\* the body of the try block of each handler, statement by statement
Program(t) ==
    IF t.server = "server"
    THEN CASE t.name = "get_balance" ->
                <<"validate_address", "validate_network", "get_pytezos_client", "request", "return">>
           [] t.name = "get_contract_storage" ->
                <<"validate_address", "validate_network", "get_pytezos_client", "request", "request", "return">>
           [] t.name = "get_operations" ->
                <<"http_client", "request", "return">>
           [] t.name = "get_block_info" ->
                <<"get_pytezos_client", "request", "return">>
           [] t.name = "call_contract" ->
                <<"validate_address", "validate_network", "validate_amount", "check_entry_point",
                  "get_key", "get_pytezos_client", "request", "send", "return">>
           [] t.name = "originate_contract" ->
                <<"validate_network", "validate_amount", "check_code", "check_storage",
                  "get_key", "get_pytezos_client", "send", "return">>
           [] t.name = "send_transaction" ->
                <<"validate_address", "validate_network", "validate_amount",
                  "get_key", "get_pytezos_client", "send", "return">>
           [] t.name = "generate_address" ->
                <<"crypto", "return">>
           [] t.name = "sign_message" ->
                <<"get_key", "crypto", "return">>
           [] t.name = "verify_signature" ->
                <<"crypto", "return">>
           [] t.name = "get_network_info" ->
                <<"get_pytezos_client", "request", "request", "return">>
    ELSE CASE t.name = "get_balance" ->
                <<"validate_address", "validate_network", "getenv_node", "http_client",
                  "request", "parse", "return">>
           [] t.name = "get_operations" ->
                <<"validate_address", "validate_network", "validate_limit", "http_client",
                  "request", "return">>
           [] t.name = "get_block_info" ->
                <<"validate_network", "check_level", "getenv_node", "http_client",
                  "request", "return">>
           [] t.name = "get_network_info" ->
                <<"validate_network", "getenv_node", "http_client", "request", "request", "return">>

\* the parameters of each operation that have a validator in security.py
Supplied(t) ==
    CASE t.name \in {"get_balance", "get_contract_storage"} -> {"address", "network"}
      [] t.name = "get_operations"                          -> {"address", "limit", "network"}
      [] t.name \in {"get_block_info", "get_network_info"}  -> {"network"}
      [] t.name \in {"call_contract", "send_transaction"}   -> {"address", "network", "amount"}
      [] t.name = "originate_contract"                      -> {"network", "amount"}
      [] OTHER                                              -> {}

\* the other parameters the handler reads
AlsoReads(t) ==
    CASE t = Tool("server", "call_contract")          -> {"entry_point", "private_key", "env_key"}
      [] t = Tool("server", "originate_contract")     -> {"code", "storage", "private_key", "env_key"}
      [] t = Tool("server", "send_transaction")       -> {"private_key", "env_key"}
      [] t = Tool("server", "sign_message")           -> {"private_key", "env_key"}
      [] t \in { Tool("server", "get_block_info"), Tool("server_readonly", "get_block_info") }
                                                      -> {"level"}
      [] OTHER                                        -> {}

\* the exception classes the handler names before its except Exception
Clauses(t) ==
    IF t.server = "server"
    THEN CASE t.name \in {"get_balance", "get_contract_storage", "call_contract",
                          "originate_contract", "send_transaction"}
                                            -> {"ValidationError", "RpcError"}
           [] t.name = "get_operations"     -> {"HTTPError"}
           [] t.name \in {"get_block_info", "get_network_info"} -> {"RpcError"}
           [] OTHER                         -> {}
    ELSE IF t.name = "get_balance"
         THEN {"ValidationError", "HTTPError", "ValueError"}
         ELSE {"ValidationError", "HTTPError"}

\* what the log lines and the raw responses of a handler call its work
Activity(t) ==
    CASE t.name = "get_balance"          -> <<"g", "e", "t", "t", "i", "n", "g", " ", "b", "a", "l", "a", "n", "c", "e">>
      [] t.name = "get_contract_storage" -> <<"g", "e", "t", "t", "i", "n", "g", " ", "c", "o", "n", "t", "r", "a", "c", "t", " ", "s", "t", "o", "r", "a", "g", "e">>
      [] t.name = "get_operations"       -> <<"g", "e", "t", "t", "i", "n", "g", " ", "o", "p", "e", "r", "a", "t", "i", "o", "n", "s">>
      [] t.name = "get_block_info"       -> <<"g", "e", "t", "t", "i", "n", "g", " ", "b", "l", "o", "c", "k", " ", "i", "n", "f", "o">>
      [] t.name = "get_network_info"     -> <<"g", "e", "t", "t", "i", "n", "g", " ", "n", "e", "t", "w", "o", "r", "k", " ", "i", "n", "f", "o">>
      [] t.name = "call_contract"        -> <<"c", "a", "l", "l", "i", "n", "g", " ", "c", "o", "n", "t", "r", "a", "c", "t">>
      [] t.name = "originate_contract"   -> <<"o", "r", "i", "g", "i", "n", "a", "t", "i", "n", "g", " ", "c", "o", "n", "t", "r", "a", "c", "t">>
      [] t.name = "send_transaction"     -> <<"s", "e", "n", "d", "i", "n", "g", " ", "t", "r", "a", "n", "s", "a", "c", "t", "i", "o", "n">>
      [] t.name = "generate_address"     -> <<"g", "e", "n", "e", "r", "a", "t", "i", "n", "g", " ", "a", "d", "d", "r", "e", "s", "s">>
      [] t.name = "sign_message"         -> <<"s", "i", "g", "n", "i", "n", "g", " ", "m", "e", "s", "s", "a", "g", "e">>
      [] t.name = "verify_signature"     -> <<"v", "e", "r", "i", "f", "y", "i", "n", "g", " ", "s", "i", "g", "n", "a", "t", "u", "r", "e">>

\* the handlers of server.py that call sanitize_log_message and
\* sanitize_error_message in their except clauses
Hardened(t) ==
    /\ t.server = "server"
    /\ t.name \in {"get_balance", "get_contract_storage", "call_contract",
                   "originate_contract", "send_transaction"}

\* the text a successful response starts with, up to its first field
\* (the check mark that opens the response of verify_signature is outside
\* the alphabet, a blank stands in its place)
SuccessHead(t) ==
    IF t.server = "server"
    THEN CASE t.name = "get_balance"          -> <<"a", "d", "d", "r", "e", "s", "s", ":", " ">>
           [] t.name = "get_contract_storage" -> <<"c", "o", "n", "t", "r", "a", "c", "t", ":", " ">>
           [] t.name = "get_operations"       -> <<"R", "e", "c", "e", "n", "t", " ", "o", "p", "e", "r", "a", "t", "i", "o", "n", "s", " ", "f", "o", "r", " ">>
           [] t.name = "get_block_info"       -> <<"B", "l", "o", "c", "k", " ", "I", "n", "f", "o", "r", "m", "a", "t", "i", "o", "n", " ", "(">>
           [] t.name = "get_network_info"     -> <<"T", "e", "z", "o", "s", " ", "N", "e", "t", "w", "o", "r", "k", " ", "I", "n", "f", "o", "r", "m", "a", "t", "i", "o", "n", " ", "(">>
           [] t.name = "call_contract"        -> <<"c", "o", "n", "t", "r", "a", "c", "t", " ", "c", "a", "l", "l", " ", "s", "u", "c", "c", "e", "s", "s", "f", "u", "l", "!">>
           [] t.name = "originate_contract"   -> <<"c", "o", "n", "t", "r", "a", "c", "t", " ", "o", "r", "i", "g", "i", "n", "a", "t", "e", "d", " ", "s", "u", "c", "c", "e", "s", "s", "f", "u", "l", "l", "y", "!">>
           [] t.name = "send_transaction"     -> <<"t", "r", "a", "n", "s", "a", "c", "t", "i", "o", "n", " ", "s", "e", "n", "t", " ", "s", "u", "c", "c", "e", "s", "s", "f", "u", "l", "l", "y", "!">>
           [] t.name = "generate_address"     -> <<"N", "e", "w", " ", "T", "e", "z", "o", "s", " ", "A", "d", "d", "r", "e", "s", "s", " ", "G", "e", "n", "e", "r", "a", "t", "e", "d", ":">>
           [] t.name = "sign_message"         -> <<"M", "e", "s", "s", "a", "g", "e", " ", "s", "i", "g", "n", "e", "d", " ", "s", "u", "c", "c", "e", "s", "s", "f", "u", "l", "l", "y", "!">>
           [] t.name = "verify_signature"     -> <<" ", "S", "i", "g", "n", "a", "t", "u", "r", "e", " ", "i", "s", " ", "V", "A", "L", "I", "D">>
    ELSE CASE t.name = "get_balance"          -> <<"A", "d", "d", "r", "e", "s", "s", ":", " ">>
           [] t.name = "get_operations"       -> <<"r", "e", "c", "e", "n", "t", " ", "o", "p", "e", "r", "a", "t", "i", "o", "n", "s", " ", "f", "o", "r", " ">>
           [] t.name = "get_block_info"       -> <<"b", "l", "o", "c", "k", " ", "i", "n", "f", "o", "r", "m", "a", "t", "i", "o", "n", " ", "(">>
           [] t.name = "get_network_info"     -> <<"t", "e", "z", "o", "s", " ", "n", "e", "t", "w", "o", "r", "k", " ", "i", "n", "f", "o", "r", "m", "a", "t", "i", "o", "n", " ", "(">>

\* the response of a handler that finds no private key
NoKeyResponse(t) ==
    CASE t.name = "call_contract" ->
            <<"e", "r", "r", "o", "r", ":", " ", "p", "r", "i", "v", "a", "t", "e", " ", "k", "e", "y", " ", "r", "e", "q", "u", "i", "r", "e", "d", ".", " ", "s", "e", "t", " ", "T", "E", "Z", "O", "S", "_", "P", "R", "I", "V", "A", "T", "E", "_", "K", "E", "Y", " ", "e", "n", "v", "i", "r", "o", "n", "m", "e", "n", "t", " ", "v", "a", "r", "i", "a", "b", "l", "e", " ", "o", "r", " ", "p", "a", "s", "s", " ", "p", "r", "i", "v", "a", "t", "e", "_", "k", "e", "y", " ", "p", "a", "r", "a", "m", "e", "t", "e", "r", ".">>
      [] t.name = "sign_message" ->
            <<"E", "r", "r", "o", "r", ":", " ", "P", "r", "i", "v", "a", "t", "e", " ", "k", "e", "y", " ", "r", "e", "q", "u", "i", "r", "e", "d", ".", " ", "S", "e", "t", " ", "T", "E", "Z", "O", "S", "_", "P", "R", "I", "V", "A", "T", "E", "_", "K", "E", "Y", " ", "e", "n", "v", "i", "r", "o", "n", "m", "e", "n", "t", " ", "v", "a", "r", "i", "a", "b", "l", "e", ".">>
      [] OTHER ->
            <<"e", "r", "r", "o", "r", ":", " ", "p", "r", "i", "v", "a", "t", "e", " ", "k", "e", "y", " ", "r", "e", "q", "u", "i", "r", "e", "d", ".", " ", "s", "e", "t", " ", "T", "E", "Z", "O", "S", "_", "P", "R", "I", "V", "A", "T", "E", "_", "K", "E", "Y", " ", "e", "n", "v", "i", "r", "o", "n", "m", "e", "n", "t", " ", "v", "a", "r", "i", "a", "b", "l", "e", ".">>

\* max_amount of validate_amount when the handlers leave it out:
\* 1_000_000_000_000 in the code, beyond the integers of the model checker;
\* the largest integer it has stands for it, far above every amount tried
DEFAULT_MAX_AMOUNT == 2147483647

\* re.match(r'^[a-zA-Z_][a-zA-Z0-9_]*$', entry_point)
EntryPointMatch(s) ==
    /\ Len(s) >= 1
    /\ s[1] \in Letter \cup {"_"}
    /\ AtDollar(s, RunEnd(s, 2, WordChar))

----------------------------------------------------------------------------
(* The requests the servers are tried on.                                  *)

ParamPool(name) ==
    CASE name = "address"     -> { PyStr(<<"t", "z", "1">> \o Rep("a", ADDRESS_BODY_LEN)), PyStr(<<"t", "z", "1", "a", "b", "c">>) }
      [] name = "network"     -> { PyStr(<<"m", "a", "i", "n", "n", "e", "t">>), PyStr(<<"G", "h", "o", "s", "t", "N", "e", "t", " ">>), PyStr(<<"e", "v", "i", "l", "/", ".", ".", "/", "n", "e", "t">>) }
      [] name = "limit"       -> { PyInt(10), PyInt(0), PyStr(<<"1", "0">>) }
      [] name = "amount"      -> { PyInt(0), PyInt(5), PyInt(0 - 1) }
      [] name = "entry_point" -> { PyStr(<<"t", "r", "a", "n", "s", "f", "e", "r">>), PyStr(<<"b", "a", "d", "-", "n", "a", "m", "e">>), PyStr(<<>>) }
      [] name = "code"        -> { PyStr(<<"p", "a", "r", "a", "m", "e", "t", "e", "r", " ", "u", "n", "i", "t", ";">>), PyStr(<<>>) }
      [] name = "storage"     -> { PyStr(<<"U", "n", "i", "t">>), PyNone }
      [] name = "level"       -> { PyNone, PyInt(5), PyInt(0 - 1) }
      [] name = "private_key" -> { PyNone, PyStr(<<"e", "d", "s", "k">>) }
      [] name = "env_key"     -> { PyNone, PyStr(<<"e", "d", "s", "k">>) }

\* the values tried for parameter name of tool t: those of the pool when
\* the handler reads the parameter, None otherwise
Choice(t, name) ==
    IF name \in Supplied(t) \cup AlsoReads(t) THEN ParamPool(name) ELSE {PyNone}

Requests(t) ==
    [ address : Choice(t, "address"), network : Choice(t, "network"),
      limit : Choice(t, "limit"), amount : Choice(t, "amount"),
      entry_point : Choice(t, "entry_point"), code : Choice(t, "code"),
      storage : Choice(t, "storage"), level : Choice(t, "level"),
      private_key : Choice(t, "private_key"), env_key : Choice(t, "env_key") ]

\* what the backends, the parsers and the key library raise
ExcKinds == {"RpcError", "HTTPError", "ValueError", "Exception"}

ExcTexts == { <<"c", "o", "n", "n", "e", "c", "t", "i", "o", "n", " ", "r", "e", "f", "u", "s", "e", "d">>, <<"c", "a", "n", "n", "o", "t", " ", "o", "p", "e", "n", " ", "/", "h", "o", "m", "e", "/", "u", "/", "w", "a", "l", "l", "e", "t", ".", "j", "s", "o", "n", ":", " ", "d", "e", "n", "i", "e", "d">> }

\* the steps that talk to the outside of the process
IOSteps == {"get_pytezos_client", "getenv_node", "http_client", "request", "send"}

\* the steps that can raise something else than a ValidationError
RaisingSteps == {"get_pytezos_client", "request", "send", "parse", "crypto"}

----------------------------------------------------------------------------
(* The handlers, step by step.                                             *)

InitServer ==
    /\ arg = PyNone /\ maxArg = 0 /\ fn = "none" /\ ret = NoResult /\ round = 0
    /\ tool \in Tools
    /\ params \in Requests(tool)
    /\ pc = 1
    /\ status = "running"
    /\ trace = <<>>
    /\ passed = {}
    /\ exc = NoExc
    /\ response = NoResponse
    /\ logged = <<>>

\* the statement the handler is at
At(step) == status = "running" /\ Program(tool)[pc] = step

\* the statement at pc completes
Advance ==
    /\ pc' = pc + 1
    /\ trace' = Append(trace, Program(tool)[pc])
    /\ UNCHANGED <<status, exc>>

\* the statement at pc raises e
Throw(e) ==
    /\ exc' = e
    /\ status' = "raised"
    /\ trace' = Append(trace, Program(tool)[pc])
    /\ UNCHANGED pc

ValidationError(m) == [kind |-> "ValidationError", text |-> m]

\* name = validate_x(name): the parameter is rebound to what the validator
\* returns, or the validator's ValidationError leaves the try block
Validated(name, r) ==
    IF r.kind = "return"
    THEN /\ params' = [params EXCEPT ![name] = r.val]
         /\ passed' = passed \cup {name}
         /\ Advance
    ELSE /\ Throw(ValidationError(r.msg))
         /\ UNCHANGED <<params, passed>>

\* a check written in the handler itself: raise ValidationError(m) unless ok
Checked(ok, m) ==
    /\ IF ok THEN Advance ELSE Throw(ValidationError(m))
    /\ UNCHANGED <<params, passed>>

StepValidateAddress ==
    /\ At("validate_address")
    /\ Validated("address", validate_address(params.address))
    /\ UNCHANGED <<tool, response, logged, callVars>>

StepValidateNetwork ==
    /\ At("validate_network")
    /\ Validated("network", validate_network(params.network))
    /\ UNCHANGED <<tool, response, logged, callVars>>

StepValidateLimit ==
    /\ At("validate_limit")
    /\ Validated("limit", validate_limit(params.limit, DEFAULT_MAX_LIMIT))
    /\ UNCHANGED <<tool, response, logged, callVars>>

StepValidateAmount ==
    /\ At("validate_amount")
    /\ Validated("amount", validate_amount(params.amount, DEFAULT_MAX_AMOUNT))
    /\ UNCHANGED <<tool, response, logged, callVars>>

StepCheckEntryPoint ==
    /\ At("check_entry_point")
    /\ IF ~Truthy(params.entry_point) \/ ~IsInstanceStr(params.entry_point)
       THEN Checked(FALSE, <<"e", "n", "t", "r", "y", "_", "p", "o", "i", "n", "t", " ", "m", "u", "s", "t", " ", "b", "e", " ", "a", " ", "n", "o", "n", "-", "e", "m", "p", "t", "y", " ", "s", "t", "r", "i", "n", "g">>)
       ELSE Checked(EntryPointMatch(params.entry_point.text),
                    <<"i", "n", "v", "a", "l", "i", "d", " ", "e", "n", "t", "r", "y", "_", "p", "o", "i", "n", "t", " ", "f", "o", "r", "m", "a", "t", ":", " ">> \o params.entry_point.text)
    /\ UNCHANGED <<tool, response, logged, callVars>>

StepCheckCode ==
    /\ At("check_code")
    /\ Checked(Truthy(params.code) /\ IsInstanceStr(params.code),
               <<"c", "o", "d", "e", " ", "m", "u", "s", "t", " ", "b", "e", " ", "a", " ", "n", "o", "n", "-", "e", "m", "p", "t", "y", " ", "s", "t", "r", "i", "n", "g">>)
    /\ UNCHANGED <<tool, response, logged, callVars>>

StepCheckStorage ==
    /\ At("check_storage")
    /\ Checked(Truthy(params.storage) /\ IsInstanceStr(params.storage),
               <<"s", "t", "o", "r", "a", "g", "e", " ", "m", "u", "s", "t", " ", "b", "e", " ", "a", " ", "n", "o", "n", "-", "e", "m", "p", "t", "y", " ", "s", "t", "r", "i", "n", "g">>)
    /\ UNCHANGED <<tool, response, logged, callVars>>

StepCheckLevel ==
    /\ At("check_level")
    /\ Checked(params.level = PyNone
                  \/ (IsInstanceInt(params.level) /\ params.level.num >= 0),
               <<"b", "l", "o", "c", "k", " ", "l", "e", "v", "e", "l", " ", "m", "u", "s", "t", " ", "b", "e", " ", "a", " ", "n", "o", "n", "-", "n", "e", "g", "a", "t", "i", "v", "e", " ", "i", "n", "t", "e", "g", "e", "r", ",", " ", "g", "o", "t", ":", " ">> \o Format(params.level))
    /\ UNCHANGED <<tool, response, logged, callVars>>

\* key = private_key or os.getenv("TEZOS_PRIVATE_KEY"); without a key the
\* handler returns at once
StepGetKey ==
    /\ At("get_key")
    /\ IF Truthy(params.private_key) \/ Truthy(params.env_key)
       THEN Advance /\ UNCHANGED response
       ELSE /\ response' = [kind |-> "failure", text |-> NoKeyResponse(tool), via |-> "none"]
            /\ status' = "done"
            /\ trace' = Append(trace, "get_key")
            /\ UNCHANGED <<pc, exc>>
    /\ UNCHANGED <<tool, params, passed, logged, callVars>>

\* an environment lookup, a client construction, a request, a signature,
\* a parse: the step completes
StepOutside ==
    /\ \E step \in IOSteps \cup RaisingSteps : At(step)
    /\ Advance
    /\ UNCHANGED <<tool, params, passed, response, logged, callVars>>

\* the same step raises instead
StepOutsideRaises ==
    /\ \E step \in RaisingSteps : At(step)
    /\ \E k \in ExcKinds, m \in ExcTexts : Throw([kind |-> k, text |-> m])
    /\ UNCHANGED <<tool, params, passed, response, logged, callVars>>

StepReturn ==
    /\ At("return")
    /\ response' = [kind |-> "success", text |-> SuccessHead(tool), via |-> "none"]
    /\ status' = "done"
    /\ trace' = Append(trace, "return")
    /\ UNCHANGED <<tool, params, pc, passed, exc, logged, callVars>>

Failure(text, via) == [kind |-> "failure", text |-> text, via |-> via]

LogLine(text, via) == [text |-> text, via |-> via]

\* logger.error(...) of an except clause: through sanitize_log_message in
\* the hardened handlers of server.py, the formatted text as it is elsewhere
LogError(label) ==
    LET line == label \o Activity(tool) \o <<":", " ">> \o exc.text
    IN  IF Hardened(tool)
        THEN LogLine(sanitize_log_message(line), "sanitize_log_message")
        ELSE LogLine(line, "raw")

\* except ValidationError as e
HandleValidationError ==
    /\ status = "raised"
    /\ exc.kind = "ValidationError"
    /\ "ValidationError" \in Clauses(tool)
    /\ response' = Failure(<<"v", "a", "l", "i", "d", "a", "t", "i", "o", "n", " ", "e", "r", "r", "o", "r", ":", " ">> \o exc.text, "raw")
    /\ status' = "done"
    /\ UNCHANGED <<tool, params, pc, trace, passed, exc, logged, callVars>>

\* except RpcError, except httpx.HTTPError, except ValueError
HandleNamedError ==
    /\ status = "raised"
    /\ exc.kind \in Clauses(tool) \ {"ValidationError"}
    /\ logged' = Append(logged,
          CASE exc.kind = "RpcError"   -> LogError(<<"R", "P", "C", " ", "e", "r", "r", "o", "r", " ">>)
            [] exc.kind = "HTTPError"  -> LogError(<<"H", "T", "T", "P", " ", "e", "r", "r", "o", "r", " ">>)
            [] exc.kind = "ValueError" -> LogLine(<<"E", "r", "r", "o", "r", " ", "p", "a", "r", "s", "i", "n", "g", " ", "b", "a", "l", "a", "n", "c", "e", ":", " ">> \o exc.text, "raw"))
    /\ response' =
          CASE exc.kind = "ValueError" -> Failure(<<"e", "r", "r", "o", "r", ":", " ", "i", "n", "v", "a", "l", "i", "d", " ", "b", "a", "l", "a", "n", "c", "e", " ", "f", "o", "r", "m", "a", "t">>, "none")
            [] exc.kind = "HTTPError" /\ tool.server = "server_readonly"
                                       -> Failure(<<"e", "r", "r", "o", "r", ":", " ", "h", "t", "t", "p", " ", "r", "e", "q", "u", "e", "s", "t", " ", "f", "a", "i", "l", "e", "d">>, "none")
            [] exc.kind = "HTTPError" /\ tool.server = "server"
                                       -> Failure(<<"E", "r", "r", "o", "r", " ", "q", "u", "e", "r", "y", "i", "n", "g", " ", "o", "p", "e", "r", "a", "t", "i", "o", "n", "s", ":", " ">> \o exc.text, "raw")
            [] exc.kind = "RpcError" /\ Hardened(tool)
                                       -> Failure(<<"e", "r", "r", "o", "r", ":", " ", "r", "p", "c", " ", "r", "e", "q", "u", "e", "s", "t", " ", "f", "a", "i", "l", "e", "d">>, "none")
            [] exc.kind = "RpcError" /\ ~Hardened(tool)
                                       -> Failure(<<"E", "r", "r", "o", "r", ":", " ">> \o exc.text, "raw")
    /\ status' = "done"
    /\ UNCHANGED <<tool, params, pc, trace, passed, exc, callVars>>

\* except Exception as e
HandleException ==
    /\ status = "raised"
    /\ exc.kind \notin Clauses(tool)
    /\ logged' = Append(logged, LogError(<<"E", "r", "r", "o", "r", " ">>))
    /\ response' =
          IF Hardened(tool) \/ tool.server = "server_readonly"
          THEN Failure(<<"e", "r", "r", "o", "r", ":", " ">> \o sanitize_error_message(PyExc(exc.text)),
                       "sanitize_error_message")
          ELSE IF tool.name \in {"generate_address", "sign_message", "verify_signature"}
          THEN Failure(<<"E", "r", "r", "o", "r", " ">> \o Activity(tool) \o <<":", " ">> \o exc.text, "raw")
          ELSE Failure(<<"E", "r", "r", "o", "r", ":", " ">> \o exc.text, "raw")
    /\ status' = "done"
    /\ UNCHANGED <<tool, params, pc, trace, passed, exc, callVars>>

NextServer ==
    \/ StepValidateAddress
    \/ StepValidateNetwork
    \/ StepValidateLimit
    \/ StepValidateAmount
    \/ StepCheckEntryPoint
    \/ StepCheckCode
    \/ StepCheckStorage
    \/ StepCheckLevel
    \/ StepGetKey
    \/ StepOutside
    \/ StepOutsideRaises
    \/ StepReturn
    \/ HandleValidationError
    \/ HandleNamedError
    \/ HandleException

SpecServer == InitServer /\ [][NextServer]_vars

----------------------------------------------------------------------------
(* Claims about the tool operations.                                       *)

\* the operations that take an address, a network, a limit or an amount
ValidatingTools ==
    { t \in Tools : t.name \in
        { "get_balance", "get_contract_storage", "get_operations", "get_block_info",
          "get_network_info", "call_contract", "originate_contract", "send_transaction" } }

\* a step of the given set has been executed
Executed(Steps) == \E i \in DOMAIN trace : trace[i] \in Steps

\* C15: in every tool operation with address, network, limit or amount
\* parameters, on both servers, a client construction, an environment
\* lookup keyed by the network, a request or a send happens only after all
\* those parameters of the operation have passed their validators, and an
\* operation in which a validator failed has performed none of them.
C15_ValidatedBeforeIO ==
    tool \in ValidatingTools
        => /\ Executed(IOSteps) => Supplied(tool) \subseteq passed
           /\ exc.kind = "ValidationError" => ~Executed(IOSteps)

\* C16: when an operation of either server ends on an exception, whatever
\* of the exception's text is in the response went through
\* sanitize_error_message, and every line logged went through
\* sanitize_log_message: neither carries the raw text of the exception.
C16_FailureTextSanitized ==
    (status = "done" /\ exc.kind # "none")
        => /\ response.via \in {"none", "sanitize_error_message"}
           /\ response.via = "sanitize_error_message"
                 => response.text = <<"e", "r", "r", "o", "r", ":", " ">>
                                      \o sanitize_error_message(PyExc(exc.text))
           /\ \A i \in DOMAIN logged : logged[i].via = "sanitize_log_message"

\* the validation steps of the handlers
ValidationSteps ==
    { "validate_address", "validate_network", "validate_limit", "validate_amount",
      "check_entry_point", "check_code", "check_storage", "check_level" }

\* C17, its part about the ValidationError: the operation ends at once,
\* with the response "validation error: " and the validator's reason, no
\* validation step having run twice and nothing having run after the one
\* that raised; only a ValidationError is reported under that label.
ValidationLabelled ==
    /\ (status = "done" /\ exc.kind = "ValidationError")
          => /\ response.kind = "failure"
             /\ response.text = <<"v", "a", "l", "i", "d", "a", "t", "i", "o", "n", " ", "e", "r", "r", "o", "r", ":", " ">> \o exc.text
             /\ trace[Len(trace)] \in ValidationSteps
    /\ \A i, j \in DOMAIN trace :
          (i # j /\ trace[i] \in ValidationSteps) => trace[i] # trace[j]
    /\ (status = "done" /\ LitAt(response.text, 1, <<"v", "a", "l", "i", "d", "a", "t", "i", "o", "n", " ", "e", "r", "r", "o", "r", ":", " ">>))
          => exc.kind = "ValidationError"

\* C17: a ValidationError raised in a tool operation ends it with a
\* response that begins with "validation error: " followed by the reason,
\* never retried and never turned into a success, and every response to a
\* failure of the backend begins with "error: ", so that neither kind of
\* failure is reported under the label of the other.
C17_FailureLabels ==
    /\ ValidationLabelled
    /\ (status = "done" /\ exc.kind \notin {"none", "ValidationError"})
          => /\ response.kind = "failure"
             /\ LitAt(response.text, 1, <<"e", "r", "r", "o", "r", ":", " ">>)

\* C18: the text left by the two path passes of sanitize_error_message has
\* no "/", so the credential-URL pass changes nothing, and the output has
\* neither a "/" nor the token https://[REDACTED].
C18_UrlPassNeverMatches ==
    (fn = "sanitize_error_message")
        => /\ ~Contains(AfterPaths(arg.text), <<"/">>)
           /\ AfterUrls(arg.text) = AfterSecrets(arg.text)
           /\ ~Contains(ret.val.text, <<"/">>)
           /\ ~Contains(ret.val.text, <<"h", "t", "t", "p", "s", ":", "/", "/", "[", "R", "E", "D", "A", "C", "T", "E", "D", "]">>)

C18_Witness ==
    /\ fn = "sanitize_error_message" /\ round = 1
    /\ Contains(arg.text, <<"h", "t", "t", "p", "s", ":", "/", "/", "u", "s", "e", "r", ":", "p", "a", "s", "s", "@", "h", "o", "s", "t", "/", "p", "a", "t", "h">>)
    /\ Contains(arg.text, <<"'">>)
    /\ ~Contains(ret.val.text, <<"/">>)

====
